---- MODULE Spec2Model ----
(***************************************************************************)
(* A model of auto-snipd-audiobooks: the sync phase (audible_checker.py),  *)
(* which reconciles the Audible catalog into the SQLite table `books`, and *)
(* the download phase (audible_downloader.py), which fetches and converts  *)
(* the selected books and marks them Downloaded.                           *)
(*                                                                         *)
(* Python values are modelled as follows.  A dict key that may be missing  *)
(* is a sequence of length 0 (missing) or 1 (<<value>>); d.get(k, default) *)
(* is Get(d.k, default).  SQLite stores a Python bool as the integer 0 or  *)
(* 1 and reads it back as that integer, so the columns Downloaded and      *)
(* Finished hold 0 or 1.  A text with markup is a sequence of segments,    *)
(* each a tag or plain text.                                               *)
(***************************************************************************)
EXTENDS Integers, Sequences, FiniteSets, TLC

VARIABLES
    store,        \* the rows of table `books`, in rowid (insertion) order
    dir,          \* the file names in the directory 'Library' (.aax and .m4a)
    TEST_MODE,    \* the module flag TEST_MODE of audible_downloader.py
    pc,           \* where the running phase (sync or download) stands
    n,            \* sync: entries of library_items and of wishlist_items still to process
    book,         \* sync: the dict `book` built by the loop body (<<>> or <<dict>>)
    fetched,      \* sync: insert_or_update_book's local `result` (<<>> or <<row>>)
    ret,          \* sync: the value insert_or_update_book returned
    snapshot,     \* sync: the entries of all_details processed by the recorded run
    run,          \* sync: 1 in a first run, 2 while the snapshot is applied again
    after_run1,   \* sync: the table as the recorded first run left it
    missing,      \* sync: books_missing_data still to query
    fetch_error,  \* sync: fetch_all_items caught an exception in this run
    books,        \* download: the candidates still to process
    selected,     \* download: what get_books_to_download returned in this run
    aax,          \* download: aax_file_path of the current candidate (<<>> or <<file>>)
    outcome       \* download: what this run did for each key

vars == <<store, dir, TEST_MODE, pc, n, book, fetched, ret, snapshot, run,
          after_run1, missing, fetch_error, books, selected, aax, outcome>>

syncVars == <<n, book, fetched, ret, snapshot, run, after_run1, missing, fetch_error>>
dlVars == <<books, selected, aax, outcome>>

(***************************************************************************)
(* Bounds and input domains                                                *)
(***************************************************************************)
\* entries of one feed (library or wishlist) in one sync run
MaxFeed == 1

\* books in the table of a download run
MaxKeys == 3

KeyPool == <<"B001", "B002", "B003", "B004", "B005">>
KeySeq == SubSeq(KeyPool, 1, MaxKeys)
Keys == {KeySeq[i] : i \in DOMAIN KeySeq}
SyncKeys == {"B001"}
SampleKeys == {"B001", "B002"}

TitleOf(k) ==
    CASE k = "B001" -> "Dune"
      [] k = "B002" -> "The Algebra of Happiness"
      [] k = "B003" -> "Emma"
      [] k = "B004" -> "Ulysses"
      [] OTHER -> "Walden"

Get(opt, default) == IF opt = <<>> THEN default ELSE opt[1]
Truthy(opt) == opt # <<>> /\ opt[1] # <<>>

Tag(t) == [tag |-> TRUE, text |-> t]
Text(t) == [tag |-> FALSE, text |-> t]

\* The raw catalog entries (dicts of the Audible API) over the keys K, with every
\* optional field present or missing.
RawEntries(K) ==
    UNION {[asin : {<<k>>},
            authors : {<<>>, << <<"Jane Doe">> >>},
            title : {<<TitleOf(k)>>},
            merchandising_summary : {<<>>, << <<Tag("<p>"), Text("A story"), Tag("</p>")>> >>},
            runtime_length_min : {<<>>, <<300>>},
            product_images : {<<>>, <<[i500 |-> <<"https://m.media/cover.jpg">>]>>},
            is_finished : {<<>>, <<TRUE>>},
            is_downloaded : {<<>>, <<TRUE>>}] : k \in K}

\* A smaller family: summary, runtime and cover always present.
SampleEntries(K) ==
    {e \in RawEntries(K) :
        /\ e.merchandising_summary # <<>>
        /\ e.runtime_length_min # <<>>
        /\ e.product_images # <<>>}

\* What a per-product lookup (products/<asin>) may return: items[0], or nothing.
Lookups ==
    [authors : {<<>>, << <<"Jane Doe">> >>},
     product_images : {<<>>, <<[i500 |-> <<"https://m.media/cover.jpg">>]>>}]

(***************************************************************************)
(* SQLite table `books`                                                    *)
(***************************************************************************)
SqlBool(b) == IF b THEN 1 ELSE 0
SqlNull == "<NULL>"

RowsWith(s, asin) == {i \in 1..Len(s) : s[i].ASIN = asin}

\* SELECT ... WHERE ASIN = ?  followed by fetchone()
\* A variant of the SELECT without "WHERE ASIN = ?": fetchone() yields the first row.
SelectFirstRow(s, asin) == IF s = <<>> THEN <<>> ELSE <<s[1]>>

SelectByAsin(s, asin) ==
    IF RowsWith(s, asin) = {} THEN <<>>
    ELSE LET i == CHOOSE i \in RowsWith(s, asin) : \A j \in RowsWith(s, asin) : i <= j
         IN  <<s[i]>>

\* INSERT INTO books: ASIN is the PRIMARY KEY, so a second row with the same
\* ASIN raises sqlite3.IntegrityError and the table is left as it was.
SqlInsert(s, row) ==
    IF RowsWith(s, row.ASIN) # {} THEN [ok |-> FALSE, store |-> s]
    ELSE [ok |-> TRUE, store |-> Append(s, row)]

\* UPDATE books SET (the fields of `set`) WHERE ASIN = ?
SqlUpdate(s, asin, set) ==
    [i \in 1..Len(s) |->
        IF s[i].ASIN = asin
        THEN [f \in DOMAIN s[i] |-> IF f \in DOMAIN set THEN set[f] ELSE s[i][f]]
        ELSE s[i]]

(***************************************************************************)
(* audible_checker.py                                                      *)
(***************************************************************************)
RECURSIVE strip_markdown(_)
strip_markdown(text) ==
    IF text = <<>> THEN ""
    ELSE IF Head(text).tag THEN strip_markdown(Tail(text))
         ELSE Head(text).text \o strip_markdown(Tail(text))

RECURSIVE JoinNames(_)
JoinNames(names) ==
    IF names = <<>> THEN ""
    ELSE IF Len(names) = 1 THEN names[1]
         ELSE names[1] \o ", " \o JoinNames(Tail(names))

AuthorOf(d) == IF Truthy(d.authors) THEN JoinNames(d.authors[1]) ELSE "Unknown"

CoverOf(d) ==
    IF d.product_images # <<>> THEN Get(d.product_images[1].i500, "") ELSE ""

\* The loop body of main_async up to the call: the dict `book` of one entry.
Normalize(d) ==
    [ASIN |-> Get(d.asin, "Unknown ASIN"),
     Author |-> AuthorOf(d),
     Title |-> Get(d.title, "Unknown Title"),
     Description |->
        strip_markdown(Get(d.merchandising_summary, <<Text("No description available")>>)),
     Length |-> IF d.runtime_length_min = <<>> THEN "Unknown"
                ELSE ToString(d.runtime_length_min[1]),
     EPUB_Column |-> "",
     Downloaded |-> FALSE,
     Cover_URL |-> CoverOf(d),
     Finished |-> Get(d.is_finished, FALSE),
     Status |-> IF Get(d.is_downloaded, FALSE) THEN "Library" ELSE "Wishlist"]

DescriptionPlaceholders == {"No description available", "", SqlNull}
LengthPlaceholders == {"Unknown", "", SqlNull}
Falsy(text) == text \in {"", SqlNull}

needs_update(cur, b) ==
    \/ cur.Status = "Wishlist" /\ b.Status = "Library"
    \/ cur.Author = "Unknown" /\ b.Author # "Unknown"
    \/ cur.Description \in DescriptionPlaceholders /\ b.Description \notin DescriptionPlaceholders
    \/ cur.Length \in LengthPlaceholders /\ b.Length \notin LengthPlaceholders
    \/ Falsy(cur.Cover_URL) /\ ~Falsy(b.Cover_URL)
    \/ cur.Finished # SqlBool(b.Finished)

\* The row an INSERT writes for `b`.
NewRow(b) ==
    [ASIN |-> b.ASIN, Author |-> b.Author, Title |-> b.Title,
     Description |-> b.Description, Length |-> b.Length,
     EPUB_Column |-> b.EPUB_Column, Downloaded |-> SqlBool(FALSE),
     Cover_URL |-> b.Cover_URL, Finished |-> SqlBool(b.Finished),
     Status |-> b.Status]

\* A variant of the UPDATE without "Downloaded = ?".
UpdateSetKeepingDownloaded(b) ==
    [Author |-> b.Author, Description |-> b.Description, Length |-> b.Length,
     EPUB_Column |-> b.EPUB_Column,
     Cover_URL |-> b.Cover_URL, Finished |-> SqlBool(b.Finished),
     Status |-> b.Status]

\* The columns an UPDATE sets from `b`.
UpdateSet(b) ==
    [Author |-> b.Author, Description |-> b.Description, Length |-> b.Length,
     EPUB_Column |-> b.EPUB_Column, Downloaded |-> SqlBool(FALSE),
     Cover_URL |-> b.Cover_URL, Finished |-> SqlBool(b.Finished),
     Status |-> b.Status]

RetInserted == "True"
RetUpdated == "False"
RetError == "False"
RetUnchanged == "None"
NotCalled == "-"

\* insert_or_update_book(conn, book): the table afterwards, the row the SELECT
\* read, and the return value.
\* A variant that inserts without the SELECT of line 88 into a table without
\* the PRIMARY KEY of line 65: the two places that keep one row per key.
insert_without_key(s, b) ==
    [store |-> Append(s, NewRow(b)), result |-> SelectByAsin(s, b.ASIN),
     ret |-> RetInserted]

insert_or_update_book(s, b) ==
    LET result == SelectByAsin(s, b.ASIN)
    IN  IF result # <<>>
        THEN IF needs_update(result[1], b)
             THEN [store |-> SqlUpdate(s, b.ASIN, UpdateSet(b)),
                   result |-> result, ret |-> RetUpdated]
             ELSE [store |-> s, result |-> result, ret |-> RetUnchanged]
        ELSE LET ins == SqlInsert(s, NewRow(b))
             IN  [store |-> ins.store, result |-> result,
                  ret |-> IF ins.ok THEN RetInserted ELSE RetError]

(***************************************************************************)
(* The sync phase: main_async                                              *)
(***************************************************************************)
NoOutcome == [reached |-> FALSE, present |-> FALSE, fetch |-> "none",
              convert |-> "none", marked |-> FALSE]

\* The locals of a phase that is not running.
SyncIdle ==
    /\ n = [library |-> 0, wishlist |-> 0]
    /\ book = <<>> /\ fetched = <<>> /\ ret = NotCalled
    /\ snapshot = <<>> /\ run = 1 /\ after_run1 = <<>> /\ missing = <<>>
    /\ fetch_error = FALSE

DlIdle ==
    /\ books = <<>> /\ selected = <<>> /\ aax = <<>>
    /\ outcome = [k \in Keys |-> NoOutcome]

\* A phase starts: the locals of the other one are gone.
SyncReset ==
    /\ n' = [library |-> 0, wishlist |-> 0]
    /\ book' = <<>> /\ fetched' = <<>> /\ ret' = NotCalled
    /\ snapshot' = <<>> /\ run' = 1 /\ after_run1' = <<>> /\ missing' = <<>>
    /\ fetch_error' = FALSE

DlReset ==
    /\ books' = <<>> /\ selected' = <<>> /\ aax' = <<>>
    /\ outcome' = [k \in Keys |-> NoOutcome]

Feeds == {"library", "wishlist"}
FeedNow == IF n.library > 0 THEN "library" ELSE "wishlist"
Remaining == n.library + n.wishlist

\* main_async up to the loop: fetch_audible_details returns library_items +
\* wishlist_items.  The model fixes the two lengths here and draws each entry
\* when the loop reaches it; `if not all_details: return` ends the run.
FetchDetails(err) ==
    /\ pc \in {"idle", "sync_done", "dl_done"}
    /\ \E nl \in 0..MaxFeed, nw \in 0..MaxFeed :
          /\ n' = [library |-> nl, wishlist |-> nw]
          /\ pc' = IF nl + nw = 0 THEN "sync_done" ELSE "sync_loop"
    /\ book' = <<>> /\ fetched' = <<>> /\ ret' = NotCalled
    /\ snapshot' = <<>> /\ run' = 1 /\ after_run1' = <<>> /\ missing' = <<>>
    /\ fetch_error' = err
    /\ DlReset
    /\ UNCHANGED <<store, dir, TEST_MODE>>

\* Every page of both feeds is retrieved.
StartSync == FetchDetails(FALSE)

\* client.get raises on some page of a feed: fetch_all_items logs the exception,
\* leaves its loop and returns the items of the pages before it, and
\* fetch_audible_details goes on and returns library_items + wishlist_items.
StartSyncFetchError == FetchDetails(TRUE)

\* One iteration of `for book_details in all_details` on the entry d.
Iterate(d) ==
    LET b == Normalize(d)
        r == insert_or_update_book(store, b)
    IN  /\ book' = <<b>>
        /\ store' = r.store
        /\ fetched' = r.result
        /\ ret' = r.ret
        /\ n' = [n EXCEPT ![FeedNow] = @ - 1]
        /\ pc' = IF Remaining = 1 THEN "sync_select" ELSE "sync_loop"
        /\ UNCHANGED <<dir, TEST_MODE, run, after_run1, missing, fetch_error, dlVars>>

\* The entries of E the current feed can hold.  The wishlist is requested with
\* the response groups "contributors, media, product_attrs, product_desc": its
\* entries have neither is_finished nor is_downloaded.
FeedEntries(E) ==
    IF FeedNow = "library" THEN E
    ELSE {d \in E : d.is_finished = <<>> /\ d.is_downloaded = <<>>}

\* A loop iteration of a run whose entries are drawn from E.
SyncLoopStep(E) ==
    /\ pc = "sync_loop" /\ run = 1
    /\ \E d \in FeedEntries(E) : Iterate(d) /\ UNCHANGED snapshot

\* The same, keeping the entry (and the feed it came from) in `snapshot`.
SyncLoopStepRecorded(E) ==
    /\ pc = "sync_loop" /\ run = 1
    /\ \E d \in FeedEntries(E) :
          /\ Iterate(d)
          /\ snapshot' = Append(snapshot, [feed |-> FeedNow, entry |-> d])

\* SELECT ASIN, Author, Cover_URL FROM books WHERE Author = 'Unknown' OR Cover_URL = ''
MissingData(s) ==
    SelectSeq(s, LAMBDA row : row.Author = "Unknown" \/ row.Cover_URL = "")

SyncSelectMissing ==
    /\ pc = "sync_select"
    /\ missing' = [i \in 1..Len(MissingData(store)) |-> MissingData(store)[i].ASIN]
    /\ pc' = "sync_enrich"
    /\ book' = <<>> /\ fetched' = <<>> /\ ret' = NotCalled
    /\ UNCHANGED <<store, dir, TEST_MODE, n, snapshot, run, after_run1, fetch_error,
                   dlVars>>

\* One iteration of `for asin, ... in books_missing_data`: the lookup returns no
\* item, or an item whose authors and cover replace the stored ones.
SyncEnrichStep ==
    /\ pc = "sync_enrich" /\ missing # <<>>
    /\ \/ UNCHANGED store
       \/ \E d \in Lookups :
             store' = SqlUpdate(store, Head(missing),
                                [Author |-> AuthorOf(d), Cover_URL |-> CoverOf(d)])
    /\ missing' = Tail(missing)
    /\ UNCHANGED <<dir, TEST_MODE, pc, n, book, fetched, ret, snapshot, run,
                   after_run1, fetch_error, dlVars>>

\* The end of main_async: the connection is closed.
SyncFinish ==
    /\ pc = "sync_enrich" /\ missing = <<>>
    /\ pc' = "sync_done"
    /\ UNCHANGED <<store, dir, TEST_MODE, syncVars, dlVars>>

\* The sync phase is started again and fetch_audible_details returns the catalog
\* of the recorded run.
SyncRerun ==
    /\ pc = "sync_done" /\ run = 1 /\ snapshot # <<>>
    /\ run' = 2
    /\ after_run1' = store
    /\ n' = [f \in Feeds |-> Cardinality({i \in 1..Len(snapshot) : snapshot[i].feed = f})]
    /\ book' = <<>> /\ fetched' = <<>> /\ ret' = NotCalled
    /\ pc' = "sync_loop"
    /\ UNCHANGED <<store, dir, TEST_MODE, snapshot, missing, fetch_error, dlVars>>

SyncReplayStep ==
    /\ pc = "sync_loop" /\ run = 2
    /\ Iterate(snapshot[Len(snapshot) - Remaining + 1].entry)
    /\ UNCHANGED snapshot

(***************************************************************************)
(* audible_downloader.py                                                   *)
(***************************************************************************)
\* A file name in 'Library' ending in ".aax": the ASIN it contains (if any) and
\* the title it is made of.  audible-cli chooses the name; it may or may not
\* contain the ASIN (download_book handles a download whose file the search
\* does not find).
AsinNamed(k) == [asin |-> <<k>>, title |-> TitleOf(k), ext |-> "aax"]
TitleNamed(k) == [asin |-> <<>>, title |-> TitleOf(k), ext |-> "aax"]

\* os.path.join('Library', f'{title} - {author}.m4a'): the converted file.
M4aNamed(title) == [asin |-> <<>>, title |-> title, ext |-> "m4a"]
FetchedNames(k) == {AsinNamed(k), TitleNamed(k)}

\* The artifact was fetched for key k.
BelongsTo(f, k) == f.ext = "aax" /\ f.title = TitleOf(k)

\* The test of find_downloaded_aax_file on one file name:
\* asin in filename or filename.startswith("The_Algebra_of_Happiness")
Matches(f, asin) ==
    /\ f.ext = "aax"
    /\ \/ f.asin = <<asin>>
       \/ f.asin = <<>> /\ f.title = "The Algebra of Happiness"

\* find_downloaded_aax_file(directory, asin): the first matching name in the
\* order os.listdir yields, which is arbitrary; None (<<>>) without a match.
find_downloaded_aax_file(d, asin) ==
    IF \E f \in d : Matches(f, asin)
    THEN {<<f>> : f \in {g \in d : Matches(g, asin)}}
    ELSE {<<>>}

\* What ffmpeg may do: exit 0, exit non-zero, or fail to start (an exception).
ConvertOutcomes == {"ok", "failed", "raised"}

\* convert_to_m4a(aax_file_path, m4a_file_path) with the given outcome: the
\* directory afterwards.  A zero return code leaves the .m4a file, and only
\* then is the .aax file removed.
convert_to_m4a(d, f, m4a, o) == IF o = "ok" THEN (d \ {f}) \cup {m4a} ELSE d

\* A variant of the query whose WHERE clause lacks "Status = 'Library'".
RECURSIVE select_any_status(_)
select_any_status(s) ==
    IF s = <<>> THEN <<>>
    ELSE LET row == Head(s)
             rest == select_any_status(Tail(s))
         IN  IF row.Downloaded = 0 /\ row.Finished = 0
             THEN <<[asin |-> row.ASIN, title |-> row.Title, author |-> row.Author]>> \o rest
             ELSE rest

\* A variant of the query whose WHERE clause lacks "Finished = 0".
RECURSIVE select_unfinished_or_not(_)
select_unfinished_or_not(s) ==
    IF s = <<>> THEN <<>>
    ELSE LET row == Head(s)
             rest == select_unfinished_or_not(Tail(s))
         IN  IF row.Downloaded = 0 /\ row.Status = "Library"
             THEN <<[asin |-> row.ASIN, title |-> row.Title, author |-> row.Author]>> \o rest
             ELSE rest

\* get_books_to_download(conn):
\* SELECT ASIN, Title, Author FROM books
\* WHERE Downloaded = 0 AND Finished = 0 AND Status = 'Library'
RECURSIVE get_books_to_download(_)
get_books_to_download(s) ==
    IF s = <<>> THEN <<>>
    ELSE LET row == Head(s)
             rest == get_books_to_download(Tail(s))
         IN  IF row.Downloaded = 0 /\ row.Finished = 0 /\ row.Status = "Library"
             THEN <<[asin |-> row.ASIN, title |-> row.Title, author |-> row.Author]>> \o rest
             ELSE rest

\* update_book_downloaded_status(conn, asin)
update_book_downloaded_status(s, asin) == SqlUpdate(s, asin, [Downloaded |-> 1])

\* main: the connection is opened and the candidates are selected.
DlSelect ==
    /\ pc \in {"idle", "sync_done", "dl_done"}
    /\ selected' = get_books_to_download(store)
    /\ books' = selected'
    /\ aax' = <<>>
    /\ outcome' = [k \in Keys |-> NoOutcome]
    /\ pc' = "dl_selected"
    /\ SyncReset
    /\ UNCHANGED <<store, dir, TEST_MODE>>

\* A variant without `if TEST_MODE: books = books[:1]`.
DlBeginWithoutLimit ==
    /\ pc = "dl_selected"
    /\ IF books = <<>>
       THEN pc' = "dl_done" /\ UNCHANGED books
       ELSE /\ books' = books
            /\ pc' = "dl_probe"
    /\ UNCHANGED <<store, dir, TEST_MODE, syncVars, selected, aax, outcome>>

\* `if not books: return`, and the limit of test mode.
DlBegin ==
    /\ pc = "dl_selected"
    /\ IF books = <<>>
       THEN pc' = "dl_done" /\ UNCHANGED books
       ELSE /\ books' = IF TEST_MODE THEN SubSeq(books, 1, 1) ELSE books
            /\ pc' = "dl_probe"
    /\ UNCHANGED <<store, dir, TEST_MODE, syncVars, selected, aax, outcome>>

\* The loop of main reaches the next candidate and searches its .aax file.
DlProbe ==
    /\ pc = "dl_probe" /\ books # <<>>
    /\ LET k == Head(books).asin
       IN  /\ \E r \in find_downloaded_aax_file(dir, k) :
                /\ aax' = r
                /\ pc' = IF r # <<>> THEN "dl_resume" ELSE "dl_fetch"
           /\ outcome' = [outcome EXCEPT ![k].reached = TRUE,
                              ![k].present = \E f \in dir : BelongsTo(f, k)]
    /\ UNCHANGED <<store, dir, TEST_MODE, syncVars, books, selected>>

\* The file exists: it is converted and the loop continues.
DlResume ==
    /\ pc = "dl_resume"
    /\ LET k == Head(books).asin
       IN  \E o \in ConvertOutcomes :
             /\ dir' = convert_to_m4a(dir, aax[1], M4aNamed(Head(books).title), o)
             /\ outcome' = [outcome EXCEPT ![k].convert = o]
    /\ books' = Tail(books)
    /\ aax' = <<>>
    /\ pc' = "dl_probe"
    /\ UNCHANGED <<store, TEST_MODE, syncVars, selected>>

\* download_book up to the search for the downloaded file.  Its own first
\* search finds nothing, the directory being as main's search left it.
\* audible-cli exits non-zero (CalledProcessError, return False) or zero, having
\* written a file or none.
DlFetch ==
    /\ pc = "dl_fetch"
    /\ LET k == Head(books).asin
       IN  \/ /\ outcome' = [outcome EXCEPT ![k].fetch = "error"]
              /\ books' = Tail(books)
              /\ pc' = "dl_probe"
              /\ UNCHANGED <<dir, aax>>
           \/ \E new \in SUBSET FetchedNames(k) :
                /\ Cardinality(new) <= 1
                /\ dir' = dir \cup new
                /\ outcome' = [outcome EXCEPT ![k].fetch = "ok"]
                /\ \E r \in find_downloaded_aax_file(dir', k) :
                      /\ aax' = r
                      /\ IF r = <<>>
                         THEN books' = Tail(books) /\ pc' = "dl_probe"
                         ELSE UNCHANGED books /\ pc' = "dl_convert"
    /\ UNCHANGED <<store, TEST_MODE, syncVars, selected>>

\* download_book converts the file it found and returns True; outside test mode
\* main then marks the book.
DlConvert ==
    /\ pc = "dl_convert"
    /\ LET k == Head(books).asin
       IN  \E o \in ConvertOutcomes :
             /\ dir' = convert_to_m4a(dir, aax[1], M4aNamed(Head(books).title), o)
             /\ IF TEST_MODE
                THEN /\ outcome' = [outcome EXCEPT ![k].convert = o]
                     /\ UNCHANGED store
                ELSE /\ outcome' = [outcome EXCEPT ![k].convert = o, ![k].marked = TRUE]
                     /\ store' = update_book_downloaded_status(store, k)
    /\ books' = Tail(books)
    /\ aax' = <<>>
    /\ pc' = "dl_probe"
    /\ UNCHANGED <<TEST_MODE, syncVars, selected>>

\* The external program never exits: subprocess.run (line 100) and
\* process.communicate (line 150) are called without a timeout and do not return.
DlAgentHangs ==
    /\ pc \in {"dl_fetch", "dl_resume", "dl_convert"}
    /\ pc' = "dl_blocked"
    /\ UNCHANGED <<store, dir, TEST_MODE, syncVars, dlVars>>

\* The loop is over: the connection is closed.
DlFinish ==
    /\ pc = "dl_probe" /\ books = <<>>
    /\ pc' = "dl_done"
    /\ UNCHANGED <<store, dir, TEST_MODE, syncVars, dlVars>>

(***************************************************************************)
(* Specifications                                                          *)
(***************************************************************************)
InitCommon ==
    /\ dir = {}
    /\ pc = "idle"
    /\ SyncIdle
    /\ DlIdle

\* Both phases in any order, from an empty table, outside test mode, on a sample
\* of the catalog: two keys, the second always with authors and never finished.
Init ==
    /\ store = <<>>
    /\ TEST_MODE = FALSE
    /\ InitCommon

SampleCatalog ==
    {e \in SampleEntries(SampleKeys) :
        e.asin # <<"B001">> => e.authors # <<>> /\ e.is_finished = <<>>}

SyncLoop == SyncLoopStep(SampleCatalog)

Next ==
    \/ StartSync \/ SyncLoop \/ SyncSelectMissing \/ SyncEnrichStep \/ SyncFinish
    \/ DlSelect \/ DlBegin \/ DlProbe \/ DlResume \/ DlFetch \/ DlConvert \/ DlFinish

Spec == Init /\ [][Next]_vars

\* The sync phase alone, run after run, from an empty table, on every catalog
\* entry of one key.
SyncCatalog == RawEntries(SyncKeys)

InitSync ==
    /\ store = <<>>
    /\ TEST_MODE = TRUE
    /\ InitCommon

SyncLoopFull == SyncLoopStep(SyncCatalog)

NextSync ==
    \/ StartSync \/ SyncLoopFull \/ SyncSelectMissing \/ SyncEnrichStep \/ SyncFinish

SpecSync == InitSync /\ [][NextSync]_vars

\* One sync run from an empty table on every catalog of one key, recorded, and
\* then the same catalog once more.
InitRerun ==
    /\ store = <<>>
    /\ TEST_MODE = TRUE
    /\ InitCommon

StartFirstSync == pc = "idle" /\ StartSync

SyncLoopRecorded == SyncLoopStepRecorded(SyncCatalog)

NextRerun ==
    \/ StartFirstSync \/ SyncLoopRecorded \/ SyncSelectMissing \/ SyncEnrichStep
    \/ SyncFinish \/ SyncRerun \/ SyncReplayStep

SpecRerun == InitRerun /\ [][NextRerun]_vars

\* The download phase alone, from every table the sync phase can have left.
DownloadRows(k) ==
    {[ASIN |-> k, Author |-> "Jane Doe", Title |-> TitleOf(k),
      Description |-> "A story", Length |-> "300", EPUB_Column |-> "",
      Downloaded |-> dl, Cover_URL |-> "https://m.media/cover.jpg",
      Finished |-> fin, Status |-> st] :
        dl \in {0, 1}, fin \in {0, 1}, st \in {"Library", "Wishlist"}}

RECURSIVE Concat(_, _)
Concat(f, i) == IF i > Len(KeySeq) THEN <<>> ELSE f[KeySeq[i]] \o Concat(f, i + 1)

InitStores ==
    {Concat(f, 1) :
        f \in {g \in [Keys -> {<<>>} \cup {<<r>> : r \in UNION {DownloadRows(k) : k \in Keys}}] :
                 \A k \in Keys :
                    g[k] # <<>> =>
                       /\ g[k][1].ASIN = k
                       /\ g[k][1].Downloaded = 1 =>
                             g[k][1].Status = "Library" /\ g[k][1].Finished = 0}}

InitDownload ==
    /\ store \in InitStores
    /\ TEST_MODE \in BOOLEAN
    /\ InitCommon

NextDownload ==
    \/ DlSelect \/ DlBegin \/ DlProbe \/ DlResume \/ DlFetch \/ DlConvert \/ DlFinish

SpecDownload == InitDownload /\ [][NextDownload]_vars

\* The sync phase with catalog retrievals that may fail.
NextFetch ==
    \/ StartSync \/ StartSyncFetchError \/ SyncLoopFull \/ SyncSelectMissing
    \/ SyncEnrichStep \/ SyncFinish

SpecFetch == InitSync /\ [][NextFetch]_vars

\* The sync phase on a catalog some of whose entries lack 'asin' or 'title'.
MalformedCatalog ==
    {[e EXCEPT !.asin = a, !.title = t] :
        e \in SampleEntries(SyncKeys), a \in {<<>>, <<"B001">>}, t \in {<<>>, <<"Dune">>}}

SyncLoopMalformed == SyncLoopStep(MalformedCatalog)

NextMalformed ==
    \/ StartSync \/ SyncLoopMalformed \/ SyncSelectMissing \/ SyncEnrichStep \/ SyncFinish

SpecMalformed == InitSync /\ [][NextMalformed]_vars

\* insert_or_update_book applied to records with pairwise distinct keys: one
\* library entry per key, on a table that holds some of the keys already.
OrderCatalog ==
    {e \in SampleEntries(Keys) : e.is_finished = <<>>}

OrderRows(k) ==
    {NewRow(Normalize(e)) : e \in {d \in OrderCatalog : d.asin = <<k>> /\ d.authors = <<>>}}

OrderStores ==
    {Concat(f, 1) :
        f \in {g \in [Keys -> {<<>>} \cup {<<r>> : r \in UNION {OrderRows(k) : k \in Keys}}] :
                 \A k \in Keys : g[k] # <<>> => g[k][1].ASIN = k}}

OrderSnapshots ==
    {[i \in 1..Len(KeySeq) |-> [feed |-> "library", entry |-> g[KeySeq[i]]]] :
        g \in {h \in [Keys -> OrderCatalog] : \A k \in Keys : h[k].asin = <<k>>}}

InitOrder ==
    /\ store \in OrderStores
    /\ TEST_MODE = TRUE
    /\ dir = {}
    /\ DlIdle
    /\ snapshot \in OrderSnapshots
    /\ run = 2
    /\ after_run1 = store
    /\ n = [library |-> Len(snapshot), wishlist |-> 0]
    /\ book = <<>> /\ fetched = <<>> /\ ret = NotCalled /\ missing = <<>>
    /\ fetch_error = FALSE
    /\ pc = "sync_loop"

NextOrder == SyncReplayStep

SpecOrder == InitOrder /\ [][NextOrder]_vars

\* The download phase with external programs that may never exit; every step
\* that can be taken is taken eventually.
NextAgents ==
    \/ DlSelect \/ DlBegin \/ DlProbe \/ DlResume \/ DlFetch \/ DlConvert \/ DlFinish
    \/ DlAgentHangs

SpecAgents == InitDownload /\ [][NextAgents]_vars /\ WF_vars(NextAgents)

(***************************************************************************)
(* Properties                                                              *)
(***************************************************************************)
\* insert_or_update_book has just returned.
PostCall == pc \in {"sync_loop", "sync_select"} /\ book # <<>> /\ ret # NotCalled

\* The stored row of the book the last call was about.
Stored == SelectByAsin(store, book[1].ASIN)[1]

FillFields == {"Author", "Description", "Length", "Cover_URL"}

IsPlaceholder(f, v) ==
    CASE f = "Author" -> v = "Unknown"
      [] f = "Description" -> v \in DescriptionPlaceholders
      [] f = "Length" -> v \in LengthPlaceholders
      [] OTHER -> Falsy(v)

\* C1 (monotonic field-fill): after a call of insert_or_update_book on a stored
\* record, every field among Author, Description, Length and Cover_URL that held a
\* non-placeholder value, and for which the incoming record carries a placeholder,
\* holds the value it held before the call.
C1_MonotonicFieldFill ==
    PostCall /\ fetched # <<>> =>
        \A f \in FillFields :
            ~IsPlaceholder(f, fetched[1][f]) /\ IsPlaceholder(f, book[1][f])
                => Stored[f] = fetched[1][f]

\* C2 (status monotonicity): after a call of insert_or_update_book on a stored
\* record whose Status was 'Library', its Status is 'Library'.
C2_StatusMonotonic ==
    PostCall /\ fetched # <<>> /\ fetched[1].Status = "Library"
        => Stored.Status = "Library"

\* The follow-up pass of a run on these entries has nothing to query.
Complete(snap) ==
    \A i \in 1..Len(snap) :
        snap[i].entry.authors # <<>> /\ snap[i].entry.product_images # <<>>

\* C3 (idempotent reconciliation): when the sync phase runs a second time on the
\* catalog of the first run, every call of insert_or_update_book of the second
\* run returns None, and the loop of the second run leaves the table as the first
\* run left it.  Stated for the catalogs whose entries all have authors and a
\* cover, on which only insert_or_update_book writes.
C3_IdempotentReconciliation ==
    run = 2 /\ Complete(snapshot) =>
        /\ PostCall => ret = RetUnchanged
        /\ pc = "sync_select" => store = after_run1

\* The keys of the entries of the recorded catalog that came from feed f.
FeedKeys(f) ==
    {Normalize(snapshot[i].entry).ASIN :
        i \in {j \in 1..Len(snapshot) : snapshot[j].feed = f}}

\* The keys of the library entries that main_async classifies as 'Library'.
OwnedKeys ==
    {Normalize(snapshot[i].entry).ASIN :
        i \in {j \in 1..Len(snapshot) :
                  /\ snapshot[j].feed = "library"
                  /\ Normalize(snapshot[j].entry).Status = "Library"}}

\* C4 (library/wishlist precedence): at the end of a sync run whose catalog has a
\* library entry and a wishlist entry of the same key, the table holds exactly one
\* row of that key and its Status is 'Library'.  Stated for the library entries
\* the loop classifies as 'Library'.
C4_LibraryPrecedence ==
    pc = "sync_done" /\ run = 1 =>
        \A k \in OwnedKeys \cap FeedKeys("wishlist") :
            /\ Cardinality(RowsWith(store, k)) = 1
            /\ SelectByAsin(store, k)[1].Status = "Library"

\* C5 (Downloaded only after a verified conversion): in a download run, a key for
\* which update_book_downloaded_status was called had its artifact converted
\* successfully in that run.
C5_DownloadedOnlyAfterConversion ==
    \A k \in Keys : outcome[k].marked => outcome[k].convert = "ok"

SelectedKeys == {selected[i].asin : i \in 1..Len(selected)}
FetchFailed == {k \in SelectedKeys : outcome[k].fetch = "error"}
DownloadedFlag(k) == SelectByAsin(store, k)[1].Downloaded

\* C6 (per-item isolation): at the end of a download run outside test mode in
\* which the fetch failed for exactly one candidate and the conversion of every
\* other candidate succeeded, every other candidate has Downloaded = 1.
C6_PerItemIsolation ==
    pc = "dl_done" /\ ~TEST_MODE /\ Cardinality(FetchFailed) = 1
       /\ (\A k \in SelectedKeys \ FetchFailed : outcome[k].convert = "ok")
        => \A k \in SelectedKeys \ FetchFailed : DownloadedFlag(k) = 1

\* C7 (resume): a candidate whose raw artifact was in the directory when the loop
\* reached it has no fetch in that run, and what is converted for it is its own
\* artifact.
C7_ResumeSkipsFetch ==
    \A k \in Keys :
        outcome[k].present =>
            /\ outcome[k].fetch = "none"
            /\ pc \in {"dl_resume", "dl_fetch"} /\ Head(books).asin = k
                  => pc = "dl_resume" /\ BelongsTo(aax[1], k)

Selectable(row) == row.Status = "Library" /\ row.Downloaded = 0 /\ row.Finished = 0

\* C8 (selector predicate): what get_books_to_download returns is, row for row
\* and in the order of the table, the rows with Status = 'Library', Downloaded = 0
\* and Finished = 0; nothing when there is none.
C8_SelectorPredicate ==
    pc = "dl_selected" =>
        LET hits == SelectSeq(store, Selectable)
        IN  /\ Len(selected) = Len(hits)
            /\ \A i \in 1..Len(hits) :
                  /\ selected[i].asin = hits[i].ASIN
                  /\ selected[i].title = hits[i].Title
                  /\ selected[i].author = hits[i].Author
            /\ \A i \in 1..Len(store) :
                  ~Selectable(store[i]) => store[i].ASIN \notin SelectedKeys

\* A downloaded row and a finished library row are in the table beside the one row selected.
C8_Witness ==
    /\ pc = "dl_selected"
    /\ Len(selected) = 1
    /\ \E i \in 1..Len(store) : store[i].Downloaded = 1
    /\ \E i \in 1..Len(store) :
          store[i].Status = "Library" /\ store[i].Downloaded = 0 /\ store[i].Finished = 1

\* C9 (key uniqueness): no two rows of the table have the same ASIN.
C9_KeyUniqueness ==
    \A i, j \in 1..Len(store) : store[i].ASIN = store[j].ASIN => i = j

\* insert_or_update_book was called for a key that was stored, beside another row.
C9_Witness ==
    PostCall /\ fetched # <<>> /\ Len(store) = 2

\* C10 (converted leads to done): at the end of a download run outside test mode,
\* every candidate whose conversion succeeded has Downloaded = 1, whether its
\* artifact was fetched in this run or found in the directory.
C10_ConvertedLeadsToDone ==
    pc = "dl_done" /\ ~TEST_MODE =>
        \A k \in SelectedKeys : outcome[k].convert = "ok" => DownloadedFlag(k) = 1

\* The final artifact of key k is in the directory.
Converted(k) == M4aNamed(TitleOf(k)) \in dir

\* C11 (persist-failure recovery): a candidate whose converted file exists while
\* its row still has Downloaded = 0 is never handed to download_book, which
\* would invoke `audible download` for it.
C11_NoRefetchAfterConversion ==
    pc = "dl_fetch" => ~Converted(Head(books).asin)

\* C12 (resume-probe association): whatever the directory holds, the search for
\* a key returns only a raw artifact fetched for that key, and returns one
\* whenever the directory holds one.
C12_ProbeAssociation ==
    \A k \in Keys :
        \A r \in find_downloaded_aax_file(dir, k) :
            /\ r # <<>> => BelongsTo(r[1], k)
            /\ (\E f \in dir : BelongsTo(f, k)) => r # <<>>

\* A step of DlResume or DlConvert: convert_to_m4a ran on aax[1] for Head(books).
ConvertStep == pc \in {"dl_resume", "dl_convert"} /\ pc' = "dl_probe"

\* C13 (raw artifact deletion): a raw artifact leaves the directory only in a
\* conversion of that artifact that succeeded; after a failed or raised
\* conversion it is still there, and the search for the candidate's key returns it.
C13_RawArtifactDeletion ==
    [][LET k == Head(books).asin
       IN  /\ \A f \in dir \ dir' :
                 ConvertStep /\ aax = <<f>> /\ outcome'[k].convert = "ok"
           /\ ConvertStep /\ outcome'[k].convert # "ok" =>
                 /\ aax[1] \in dir'
                 /\ find_downloaded_aax_file(dir', k) = {aax}]_vars

\* The entry the record b was built from lacked its key or its title.
Malformed(b) == b.ASIN = "Unknown ASIN" \/ b.Title = "Unknown Title"

\* C14 (malformed-record isolation): insert_or_update_book is not called for an
\* entry without key or title, and no row stands for such an entry.
C14_MalformedSkipped ==
    /\ pc \in {"sync_loop", "sync_select"} /\ book # <<>> /\ Malformed(book[1])
          => ret = NotCalled
    /\ \A i \in 1..Len(store) : ~Malformed(store[i])

\* C15 (fetch-phase failure): in a run whose catalog retrieval raised an error,
\* no step of the phase writes the table.
C15_FetchFailureAborts ==
    [][fetch_error /\ pc \in {"sync_loop", "sync_select", "sync_enrich"}
          => store' = store]_vars

\* The incoming record b qualifies the stored row cur for an update: a status
\* promotion, a placeholder filled, or another Finished.
Qualifies(cur, b) ==
    \/ cur.Status = "Wishlist" /\ b.Status = "Library"
    \/ \E f \in FillFields : IsPlaceholder(f, cur[f]) /\ ~IsPlaceholder(f, b[f])
    \/ cur.Finished # SqlBool(b.Finished)

\* C16 (Downloaded reset on update): after a call of insert_or_update_book on a
\* stored record that qualifies, the call reports an update, Downloaded is 0 and
\* Finished is the incoming value, so the row is selected for download again if
\* it is an unfinished Library row; after a call that does not qualify, the call
\* reports no change and the row is as it was.
C16_DownloadedResetOnUpdate ==
    PostCall /\ fetched # <<>> =>
        IF Qualifies(fetched[1], book[1])
        THEN /\ ret = RetUpdated
             /\ Stored.Downloaded = 0
             /\ Stored.Finished = SqlBool(book[1].Finished)
             /\ Stored.Status = "Library" /\ Stored.Finished = 0
                   => \E i \in 1..Len(get_books_to_download(store)) :
                         get_books_to_download(store)[i].asin = Stored.ASIN
        ELSE /\ ret = RetUnchanged
             /\ Stored = fetched[1]

\* A row marked Downloaded was updated and is a candidate again.
C16_Witness ==
    /\ PostCall /\ fetched # <<>> /\ fetched[1].Downloaded = 1
    /\ ret = RetUpdated /\ Stored.Downloaded = 0
    /\ Stored.Status = "Library" /\ Stored.Finished = 0

\* The rows of a table, whatever their rowids.
Rows(s) == {s[i] : i \in 1..Len(s)}

\* insert_or_update_book applied to the records bs[p[1]], bs[p[2]], ... from the
\* table s: the table in the end and what each call returned, by key.
RECURSIVE ApplyInOrder(_, _, _, _)
ApplyInOrder(s, bs, p, rets) ==
    IF p = <<>> THEN [store |-> s, rets |-> rets]
    ELSE LET b == bs[Head(p)]
             r == insert_or_update_book(s, b)
         IN  ApplyInOrder(r.store, bs, Tail(p), rets \cup {<<b.ASIN, r.ret>>})

\* The orders in which m records can be applied.
Orders(m) == {p \in [1..m -> 1..m] : \A i, j \in 1..m : p[i] = p[j] => i = j}

\* The records of the run and the outcome of applying them in the order p.
Incoming == [i \in 1..Len(snapshot) |-> Normalize(snapshot[i].entry)]
Applied(p) == ApplyInOrder(after_run1, Incoming, p, {})

\* C17 (order independence): records with pairwise distinct keys, applied from
\* the same table in any two orders, leave the same rows and get the same
\* result per record (compared when the run is about to apply its first
\* record); the run itself, which applies them in one of these orders, reports
\* these results and ends with these rows.
C17_OrderIndependence ==
    LET first == CHOOSE p \in Orders(Len(snapshot)) : TRUE
        rows == Rows(Applied(first).store)
        rets == Applied(first).rets
    IN  /\ Remaining = Len(snapshot) =>
              \A p \in Orders(Len(snapshot)) :
                  Rows(Applied(p).store) = rows /\ Applied(p).rets = rets
        /\ PostCall => <<book[1].ASIN, ret>> \in rets
        /\ pc = "sync_select" => Rows(store) = rows

\* The run is over: some records were inserted, some updated rows, some changed nothing.
C17_Witness ==
    /\ pc = "sync_select"
    /\ Len(store) > Len(after_run1) /\ after_run1 # <<>>
    /\ \E p \in Orders(Len(snapshot)) :
          {pr[2] : pr \in Applied(p).rets} = {RetInserted, RetUpdated, RetUnchanged}

\* C18 (bounded agent calls): a download run that has selected its candidates
\* finishes, whatever the external programs do.
C18_RunFinishes == (pc = "dl_selected") ~> (pc = "dl_done")

\* C19 (enrichment pass): a step of the pass over books_missing_data leaves every
\* Author other than 'Unknown' and every Cover_URL other than '' as it is.
C19_EnrichmentKeepsRealData ==
    [][pc = "sync_enrich" =>
          \A i \in 1..Len(store) :
              /\ store[i].Author # "Unknown" => store'[i].Author = store[i].Author
              /\ store[i].Cover_URL # "" => store'[i].Cover_URL = store[i].Cover_URL]_vars

\* C20 (implicit invariant): every row with Downloaded = 1 is an unfinished
\* Library row; a call of insert_or_update_book that changed Status or Finished
\* left Downloaded = 0; and the download run marks only keys it selected.
C20_DownloadedImpliesLibraryUnfinished ==
    /\ \A i \in 1..Len(store) :
          store[i].Downloaded = 1 => store[i].Status = "Library" /\ store[i].Finished = 0
    /\ PostCall /\ fetched # <<>>
          /\ (Stored.Status # fetched[1].Status \/ Stored.Finished # fetched[1].Finished)
          => Stored.Downloaded = 0
    /\ \A k \in Keys : outcome[k].marked => k \in SelectedKeys

\* A sync run meets a row the download run marked, and leaves it marked.
C20_Witness ==
    PostCall /\ fetched # <<>> /\ fetched[1].Downloaded = 1 /\ Stored.Downloaded = 1

\* C21 (test mode): with TEST_MODE set, no step of a download run writes the
\* table, only the first selected candidate is ever reached, and when the run
\* is over the query selects the same candidates again.
C21_TestModeFrame ==
    [][TEST_MODE =>
          /\ store' = store
          /\ \A k \in Keys : outcome'[k].reached => k = selected'[1].asin
          /\ pc' = "dl_done" => get_books_to_download(store') = selected']_vars

\* A run in test mode converted its first candidate and left a second one alone.
C21_Witness ==
    /\ TEST_MODE /\ pc = "dl_done" /\ Len(selected) >= 2
    /\ outcome[selected[1].asin].convert = "ok"
    /\ ~outcome[selected[2].asin].reached
    /\ DownloadedFlag(selected[1].asin) = 0

====
